---- MODULE Spec2Model ----
(***************************************************************************)
(* TripSignal: the notification outbox (table notifications_outbox, the    *)
(* email and log channel workers) and the match recorder.                  *)
(*                                                                         *)
(* Time.  The workers compare two timestamps of a row with the database    *)
(* clock: next_attempt_at <= now() and updated_at < now() - 5 minutes.     *)
(* The model keeps both timestamps relative to now(), in seconds, and      *)
(* follows each only up to the instant at which its comparison flips:      *)
(*   next_attempt_at = s after a write of now() + s, and 0 from the        *)
(*                     instant now() reaches it (Due); or NULL;            *)
(*   updated_at      = 0 after a write of now(), and STALE_SECONDS + 1     *)
(*                     from the instant the row, still sending, is more    *)
(*                     than STALE_SECONDS old (Stale).                     *)
(* The clock of one row's deadline says nothing about another row's: the   *)
(* deadlines of different rows may pass in any order.                      *)
(***************************************************************************)
EXTENDS Integers, Sequences, FiniteSets, TLC

\* ------------------------------------------------------------------ bounds
MaxRows == 2
MaxCrashes == 1
MaxDeals == 2
MaxCalls == 3
MaxKeys == 2
MaxUpserts == 3
\* NOTIFICATIONS_BATCH_SIZE, 25 unless set; scaled down with MaxRows, so that
\* one claim_batch can take every row of the table, as 25 does in a small one.
BATCH_SIZE == 2

RowIds == 1..MaxRows
Workers == {"w1", "w2"}
Channels == {"email", "log"}
Procs == {"p1", "p2"}
SignalIds == {"s1"}
DealIds == 1..MaxDeals
Pairs == SignalIds \X DealIds
DedupeKeys == 1..MaxKeys
DealRowIds == 1..MaxKeys
PriceCents == {9500, 10000, 10500}

\* ------------------------------------------------------- program constants
BACKOFF_SECONDS == <<30, 120, 600, 1800, 7200>>
MAX_ATTEMPTS == 8
STALE_SECONDS == 300
NULL == -1
NoError == "None"

VARIABLES
    outbox,     \* notifications_outbox: row id -> row, or NoRow
    chan,       \* worker -> the channel of the worker module it runs
    pc,         \* worker -> "poll" | "claiming" | "deliver"; under the
                \* runner also "unstarted" and "exited" (thread ended)
    locked,     \* worker -> rows it holds FOR UPDATE in its open claim
    batch,      \* worker -> the rows claim_batch returned, not yet finished
    loaded,     \* worker -> the column values its session loaded for the
                \*           row it is processing
    crashes,    \* number of worker crashes so far
    deal_matches,   \* the committed rows of table deal_matches
    signal_runs,    \* the committed rows of table signal_runs, by id
    proc,       \* matching process -> where it is in its request or page
    digests,    \* (signal, deal) -> digest emails sent that list the deal
    calls,      \* (signal, deal) -> recordings of the pair that have ended
    deals,          \* the rows of table deals
    price_history,  \* deal id -> the price_cents of its deal_price_history
                    \*            rows, oldest first
    upserts,        \* dedupe key -> upsert_deal calls that have returned
    sweep,          \* run_scraper: where it is, and its seen_dedupe_keys
    latest_sweep,   \* the seen_dedupe_keys of the latest completed sweep
    listed,         \* list_signal_matches: the history read for the deal
                    \* listed last, and the trend returned for it
    matching,       \* match_deal_to_signals: a signal, a deal with its
                    \* deal_meta, and whether the signal was returned; or
                    \* the signals and deals of a pass, the place of the
                    \* loop, and the signals returned so far
    batch_size      \* worker -> the NOTIFICATIONS_BATCH_SIZE of its process

workerVars == <<chan, pc, locked, batch, loaded, crashes>>
matchVars == <<deal_matches, signal_runs, proc, digests, calls>>
dealVars ==
    <<deals, price_history, upserts, sweep, latest_sweep, listed, matching>>
vars == <<outbox, workerVars, matchVars, dealVars, batch_size>>

NoRow == [status |-> "absent"]
NoLoad == [status |-> "absent"]

Present(r) == outbox[r].status # "absent"

WorkerChannel(w) == chan[w]

Min(a, b) == IF a < b THEN a ELSE b
Max(a, b) == IF a > b THEN a ELSE b

\* ---------------------------------------------------------------- enqueue
NewOutboxRow_NoNextAttempt(ch, to, match) ==
    [status |-> "pending", attempts |-> 0, next_attempt_at |-> NULL,
     updated_at |-> 0, last_error |-> NoError, channel |-> ch,
     to_email |-> to, match_id |-> match]

\* A new outbox row as the enqueuers build it: status pending, attempts 0
\* (server default), next_attempt_at = now().
NewOutboxRow(ch, to, match) ==
    [status |-> "pending", attempts |-> 0, next_attempt_at |-> 0,
     updated_at |-> 0, last_error |-> NoError, channel |-> ch,
     to_email |-> to, match_id |-> match]

\* Rows are created in id order, so the id order is the created_at order.
FreeRows == {r \in RowIds : ~Present(r)}
NextRowId == CHOOSE r \in FreeRows : \A q \in FreeRows : r <= q

\* admin.py enqueue_test_email: channel email to the payload's address when
\* ENABLE_EMAIL_NOTIFICATIONS is set, else channel log to "log".
Enqueue(ch) ==
    /\ FreeRows # {}
    /\ outbox' = [outbox EXCEPT ![NextRowId] =
                    NewOutboxRow(ch, IF ch = "email" THEN "user" ELSE "log",
                                 NULL)]
    /\ UNCHANGED <<chan, pc, locked, batch, loaded, crashes>>
    /\ UNCHANGED matchVars
    /\ UNCHANGED dealVars
    /\ UNCHANGED batch_size

\* ------------------------------------------------------------ claim_batch
Eligible_NoStaleReclaim(row, ch) ==
    /\ row.status = "pending"
    /\ row.channel = ch
    /\ row.next_attempt_at # NULL
    /\ row.next_attempt_at <= 0

Eligible_IgnoresDeadline(row, ch) ==
    /\ row.status # "absent"
    /\ row.channel = ch
    /\ \/ row.status = "pending"
       \/ (row.status = "sending" /\ row.updated_at > STALE_SECONDS)

\* The WHERE clause of claim_batch. A NULL next_attempt_at compares as
\* unknown, so the row is not selected.
Eligible(row, ch) ==
    /\ row.status # "absent"
    /\ row.channel = ch
    /\ row.next_attempt_at # NULL
    /\ row.next_attempt_at <= 0
    /\ \/ row.status = "pending"
       \/ (row.status = "sending" /\ row.updated_at > STALE_SECONDS)

LockedByOthers(w) == UNION {locked[v] : v \in Workers \ {w}}

FirstN(S, n) == {r \in S : Cardinality({q \in S : q < r}) < n}

SelectForUpdate_NoLock(ch, w) ==
    FirstN({r \in RowIds : Eligible(outbox[r], ch)}, batch_size[w])

\* SELECT ... ORDER BY created_at LIMIT batch_size FOR UPDATE SKIP LOCKED
SelectForUpdate(ch, w) ==
    FirstN({r \in RowIds : Eligible(outbox[r], ch)} \ LockedByOthers(w),
           batch_size[w])

claim_row_KeepsAttempts(row) ==
    [row EXCEPT !.status = "sending", !.updated_at = 0]

\* The loop over the selected rows in claim_batch.
claim_row(row) ==
    [row EXCEPT !.status = "sending", !.attempts = @ + 1, !.updated_at = 0]

SetToSeq_NewestFirst(S) ==
    LET RECURSIVE Build(_)
        Build(T) == IF T = {} THEN <<>>
                    ELSE LET m == CHOOSE r \in T : \A q \in T : r >= q
                         IN <<m>> \o Build(T \ {m})
    IN Build(S)

\* The rows of the SELECT as a list, in its ORDER BY created_at ASC.
SetToSeq(S) ==
    LET RECURSIVE Build(_)
        Build(T) == IF T = {} THEN <<>>
                    ELSE LET m == CHOOSE r \in T : \A q \in T : r <= q
                         IN <<m>> \o Build(T \ {m})
    IN Build(S)

\* claim_batch up to the SELECT: the rows are locked, nothing is written yet.
\* A SELECT that finds no row locks and writes nothing; main sleeps and
\* polls again, which leaves the worker where it is.
ClaimSelect(w) ==
    /\ pc[w] = "poll"
    /\ SelectForUpdate(WorkerChannel(w), w) # {}
    /\ locked' = [locked EXCEPT ![w] = SelectForUpdate(WorkerChannel(w), w)]
    /\ pc' = [pc EXCEPT ![w] = "claiming"]
    /\ UNCHANGED <<outbox, chan, batch, loaded, crashes>>
    /\ UNCHANGED matchVars
    /\ UNCHANGED dealVars
    /\ UNCHANGED batch_size

\* What the session keeps of a loaded row, as far as mark_sent compares it.
Loaded(row) ==
    [status |-> row.status, last_error |-> row.last_error,
     next_attempt_at |-> IF row.next_attempt_at = NULL THEN NULL ELSE 0]

\* claim_batch from the loop to db.commit(): the rows become sending and
\* the locks are released. main then starts on the first row: row_id =
\* row.id loads the row, which the commit had expired in the session.
ClaimCommit(w) ==
    /\ pc[w] = "claiming"
    /\ outbox' = [r \in RowIds |->
                    IF r \in locked[w] THEN claim_row(outbox[r]) ELSE outbox[r]]
    /\ batch' = [batch EXCEPT ![w] = SetToSeq(locked[w])]
    /\ loaded' = [loaded EXCEPT ![w] = Loaded(outbox'[Head(batch'[w])])]
    /\ locked' = [locked EXCEPT ![w] = {}]
    /\ pc' = [pc EXCEPT ![w] = "deliver"]
    /\ UNCHANGED <<chan, crashes>>
    /\ UNCHANGED matchVars
    /\ UNCHANGED dealVars
    /\ UNCHANGED batch_size

\* ------------------------------------------------------------- processing
\* The unit of work writes a column only when the value set differs from
\* the value the session loaded.
Upd(current, was, new) == IF new = was THEN current ELSE new

\* mark_sent of the email worker (next_attempt_at = None) and of the log
\* worker (next_attempt_at = now()); updated_at = now() in both.
mark_sent(row, was, ch) ==
    [row EXCEPT
        !.status = Upd(@, was.status, "sent"),
        !.last_error = Upd(@, was.last_error, NoError),
        !.next_attempt_at = IF ch = "email" THEN Upd(@, was.next_attempt_at, NULL)
                            ELSE 0,
        !.updated_at = 0]

BackoffIndex_FromZero(attempts) ==
    Min(Max(attempts, 0), Len(BACKOFF_SECONDS) - 1)

BackoffIndex(attempts) ==
    Min(Max((IF attempts = 0 THEN 1 ELSE attempts) - 1, 0),
        Len(BACKOFF_SECONDS) - 1)

mark_retry_CountsAttempt(row, ch) ==
    IF row.attempts >= MAX_ATTEMPTS
    THEN [row EXCEPT !.last_error = "error", !.updated_at = 0,
                     !.status = "dead", !.attempts = @ + 1,
                     !.next_attempt_at = IF ch = "email" THEN NULL ELSE 0]
    ELSE [row EXCEPT !.last_error = "error", !.updated_at = 0,
                     !.attempts = @ + 1,
                     !.next_attempt_at =
                         BACKOFF_SECONDS[BackoffIndex(row.attempts) + 1],
                     !.status = "pending"]

\* mark_retry after db.rollback(): the row is read again, so attempts is
\* the committed value. Indices of BACKOFF_SECONDS start at 1 here.
mark_retry(row, ch) ==
    IF row.attempts >= MAX_ATTEMPTS
    THEN [row EXCEPT !.last_error = "error", !.updated_at = 0,
                     !.status = "dead",
                     !.next_attempt_at = IF ch = "email" THEN NULL ELSE 0]
    ELSE [row EXCEPT !.last_error = "error", !.updated_at = 0,
                     !.next_attempt_at =
                         BACKOFF_SECONDS[BackoffIndex(row.attempts) + 1],
                     !.status = "pending"]

FinishRow_AbandonsBatch(w) ==
    /\ batch' = [batch EXCEPT ![w] = <<>>]
    /\ loaded' = [loaded EXCEPT ![w] = NoLoad]
    /\ pc' = [pc EXCEPT ![w] = "poll"]

\* The row is committed; the loop goes on to the next row of the batch and
\* loads it (the commit expired it), or main claims again after the last.
FinishRow(w) ==
    /\ batch' = [batch EXCEPT ![w] = Tail(@)]
    /\ loaded' = [loaded EXCEPT ![w] =
                    IF Tail(batch[w]) = <<>> THEN NoLoad
                    ELSE Loaded(outbox'[Head(Tail(batch[w]))])]
    /\ pc' = [pc EXCEPT ![w] = IF Tail(batch[w]) = <<>> THEN "poll" ELSE "deliver"]

\* process_row returned: mark_sent; db.commit(). The UPDATE waits for a
\* claimer that holds the row FOR UPDATE.
DeliverOk(w) ==
    /\ pc[w] = "deliver"
    /\ Head(batch[w]) \notin LockedByOthers(w)
    /\ outbox' = [outbox EXCEPT ![Head(batch[w])] =
                    mark_sent(@, loaded[w], WorkerChannel(w))]
    /\ FinishRow(w)
    /\ UNCHANGED <<chan, locked, crashes>>
    /\ UNCHANGED matchVars
    /\ UNCHANGED dealVars
    /\ UNCHANGED batch_size

\* process_row raised: db.rollback(); mark_retry; db.commit().
DeliverFail(w) ==
    /\ pc[w] = "deliver"
    /\ Head(batch[w]) \notin LockedByOthers(w)
    /\ outbox' = [outbox EXCEPT ![Head(batch[w])] =
                    mark_retry(@, WorkerChannel(w))]
    /\ FinishRow(w)
    /\ UNCHANGED <<chan, locked, crashes>>
    /\ UNCHANGED matchVars
    /\ UNCHANGED dealVars
    /\ UNCHANGED batch_size

\* The worker process dies while it processes a batch and is started again:
\* the rows it had claimed stay as they are in the table. (A process that
\* dies inside claim_batch has its transaction rolled back, which leaves
\* the table as if the call had not been made.)
Crash(w) ==
    /\ crashes < MaxCrashes
    /\ pc[w] = "deliver"
    /\ crashes' = crashes + 1
    /\ pc' = [pc EXCEPT ![w] = "poll"]
    /\ batch' = [batch EXCEPT ![w] = <<>>]
    /\ loaded' = [loaded EXCEPT ![w] = NoLoad]
    /\ UNCHANGED <<outbox, chan, locked>>
    /\ UNCHANGED matchVars
    /\ UNCHANGED dealVars
    /\ UNCHANGED batch_size

\* -------------------------------------------------------- the worker runner
\* The functions a worker module defines.
ModuleAttrs(ch) ==
    IF ch = "email"
    THEN {"enqueue_admin_alert", "claim_batch", "mark_sent", "mark_failed",
          "mark_retry", "process_row", "main"}
    ELSE {"claim_batch", "mark_sent", "mark_retry", "process_row", "main"}

\* The function the runner's thread of a channel calls: _run_email calls
\* notifications_email_worker.main, _run_log calls
\* notifications_log_worker.run.
Target(ch) == IF ch = "email" THEN "main" ELSE "run"

\* t.start(): the thread calls its target with once=False. A target that
\* the module does not define raises AttributeError, which ends the thread;
\* the runner's main sleeps on.
StartThread(w) ==
    /\ pc[w] = "unstarted"
    /\ pc' = [pc EXCEPT ![w] =
                IF Target(chan[w]) \in ModuleAttrs(chan[w]) THEN "poll"
                ELSE "exited"]
    /\ UNCHANGED <<outbox, chan, locked, batch, loaded, crashes>>
    /\ UNCHANGED matchVars
    /\ UNCHANGED dealVars
    /\ UNCHANGED batch_size

\* ------------------------------------------------------------------- time
\* now() reaches the next_attempt_at of row r.
Due(r) ==
    /\ Present(r)
    /\ outbox[r].next_attempt_at > 0
    /\ outbox' = [outbox EXCEPT ![r].next_attempt_at = 0]
    /\ UNCHANGED <<chan, pc, locked, batch, loaded, crashes>>
    /\ UNCHANGED matchVars
    /\ UNCHANGED dealVars
    /\ UNCHANGED batch_size

\* now() - 5 minutes passes the updated_at of row r, which is still sending.
Stale(r) ==
    /\ outbox[r].status = "sending"
    /\ outbox[r].updated_at <= STALE_SECONDS
    /\ outbox' = [outbox EXCEPT ![r].updated_at = STALE_SECONDS + 1]
    /\ UNCHANGED <<chan, pc, locked, batch, loaded, crashes>>
    /\ UNCHANGED matchVars
    /\ UNCHANGED dealVars
    /\ UNCHANGED batch_size

Advance == \E r \in RowIds : Due(r) \/ Stale(r)

\* The window in which one signal is to get no second notification, as the
\* scraper's digest loop measures it: timedelta(hours=24).
WINDOW_SECONDS == 24 * 3600

\* now() - 24 hours passes the updated_at that mark_sent gave row r.
Cooled(r) ==
    /\ outbox[r].status = "sent"
    /\ outbox[r].updated_at <= WINDOW_SECONDS
    /\ outbox' = [outbox EXCEPT ![r].updated_at = WINDOW_SECONDS + 1]
    /\ UNCHANGED <<chan, pc, locked, batch, loaded, crashes>>
    /\ UNCHANGED matchVars
    /\ UNCHANGED dealVars
    /\ UNCHANGED batch_size

\* --------------------------------------------------------- match recorder
NoPair == <<"none", 0>>
\* response: how the process's latest recording of a pair ended ("created",
\* "existing", or "error" for an exception).
IdleProc == [pc |-> "idle", pair |-> NoPair, new_deals |-> {},
             response |-> "none"]

MatchRows(x) == {m \in deal_matches : m.pair = x}
NextMatchId == Cardinality(deal_matches) + 1

InFlight(p) ==
    IF proc[p].pc \in {"api_commit"} THEN {proc[p].pair} ELSE {}

\* uq_deal_matches_signal_deal: an INSERT of a pair that another open
\* transaction has inserted waits for that transaction to end.
UniqueIndexWait(p, x) == \E q \in Procs \ {p} : x \in InFlight(q)

UniqueViolation_NoConstraint(x) == FALSE

\* uq_deal_matches_signal_deal: an INSERT of a pair that has a committed row
\* raises IntegrityError.
UniqueViolation(x) == MatchRows(x) # {}

Ended(x) == [calls EXCEPT ![x] = @ + 1]

\* create_signal_match up to the flush of the new DealMatch. The run row is
\* flushed before it, in the same transaction. On IntegrityError the
\* handler rolls back, which discards the run row too; the existing match
\* is read and given run.id, the id of a row that no longer exists, so its
\* flush fails on the foreign key to signal_runs, and the commit of the
\* failed run in the outer handler is refused by the session that still
\* holds the failed flush: nothing is written and the error is raised.
ApiInsert(p, x) ==
    /\ proc[p].pc = "idle"
    /\ calls[x] < MaxCalls
    /\ ~UniqueIndexWait(p, x)
    /\ IF UniqueViolation(x)
       THEN /\ calls' = Ended(x)
            /\ proc' = [proc EXCEPT ![p].response = "error"]
       ELSE /\ proc' = [proc EXCEPT ![p] =
                          [pc |-> "api_commit", pair |-> x, new_deals |-> {},
                           response |-> "none"]]
            /\ UNCHANGED calls
    /\ UNCHANGED <<outbox, workerVars, deal_matches, signal_runs, digests>>
    /\ UNCHANGED dealVars
    /\ UNCHANGED batch_size

\* create_signal_match, created_new: the outbox row is added, the run is
\* set to success with matches_created_count 1, and all is committed.
ApiCommit(p) ==
    /\ proc[p].pc = "api_commit"
    /\ FreeRows # {}
    /\ deal_matches' = deal_matches \cup
            {[id |-> NextMatchId, pair |-> proc[p].pair,
              run_id |-> Len(signal_runs) + 1]}
    /\ signal_runs' = Append(signal_runs,
            [status |-> "success", matches_created_count |-> 1])
    /\ outbox' = [outbox EXCEPT ![NextRowId] =
                    NewOutboxRow("log", "log", NextMatchId)]
    /\ calls' = Ended(proc[p].pair)
    /\ proc' = [proc EXCEPT ![p] = [IdleProc EXCEPT !.response = "created"]]
    /\ UNCHANGED <<workerVars, digests>>
    /\ UNCHANGED dealVars
    /\ UNCHANGED batch_size

ApiFail_CommitsMatch(p) ==
    /\ proc[p].pc = "api_commit"
    /\ deal_matches' = deal_matches \cup
            {[id |-> NextMatchId, pair |-> proc[p].pair,
              run_id |-> Len(signal_runs) + 1]}
    /\ signal_runs' = Append(signal_runs,
            [status |-> "failed", matches_created_count |-> 0])
    /\ calls' = Ended(proc[p].pair)
    /\ proc' = [proc EXCEPT ![p] = [IdleProc EXCEPT !.response = "error"]]
    /\ UNCHANGED <<outbox, workerVars, digests>>
    /\ UNCHANGED dealVars
    /\ UNCHANGED batch_size

\* create_signal_match fails after the flush of the new DealMatch: the load
\* of match.deal, the flush of the outbox row or the COMMIT raises a
\* database error. The transaction, which holds the run and the match, is
\* rolled back or left aborted, so the commit of the failed run in the
\* handler is refused as well: nothing is written and the error is raised.
ApiFail(p) ==
    /\ proc[p].pc = "api_commit"
    /\ calls' = Ended(proc[p].pair)
    /\ proc' = [proc EXCEPT ![p] = [IdleProc EXCEPT !.response = "error"]]
    /\ UNCHANGED <<outbox, workerVars, deal_matches, signal_runs, digests>>
    /\ UNCHANGED dealVars
    /\ UNCHANGED batch_size

\* run_scraper, for a deal of the page and a signal it matches: the SELECT
\* of an existing DealMatch; with one, continue.
ScrCheck(p, x) ==
    /\ proc[p].pc \in {"idle", "page"}
    /\ calls[x] < MaxCalls
    /\ IF MatchRows(x) # {}
       THEN /\ proc' = [proc EXCEPT ![p].pc = "page",
                                     ![p].response = "existing"]
            /\ calls' = Ended(x)
       ELSE /\ proc' = [proc EXCEPT ![p].pc = "scr_insert", ![p].pair = x]
            /\ UNCHANGED calls
    /\ UNCHANGED <<outbox, workerVars, deal_matches, signal_runs, digests>>
    /\ UNCHANGED dealVars
    /\ UNCHANGED batch_size

\* run_scraper: db.add(match); db.commit(); the deal is collected for the
\* digest of its signal. An IntegrityError is caught by the handler around
\* the deal; the session is left with the failed flush, so the remaining
\* deals of the page and the digest loop of the page raise and are skipped.
ScrInsert(p) ==
    /\ proc[p].pc = "scr_insert"
    /\ ~UniqueIndexWait(p, proc[p].pair)
    /\ IF UniqueViolation(proc[p].pair)
       THEN /\ proc' = [proc EXCEPT ![p] =
                          [IdleProc EXCEPT !.response = "error"]]
            /\ UNCHANGED deal_matches
       ELSE /\ deal_matches' = deal_matches \cup
                    {[id |-> NextMatchId, pair |-> proc[p].pair,
                      run_id |-> NULL]}
            /\ proc' = [proc EXCEPT ![p] =
                          [pc |-> "page", pair |-> NoPair,
                           new_deals |-> @.new_deals \cup {proc[p].pair},
                           response |-> "created"]]
    /\ calls' = Ended(proc[p].pair)
    /\ UNCHANGED <<outbox, workerVars, signal_runs, digests>>
    /\ UNCHANGED dealVars
    /\ UNCHANGED batch_size

\* run_scraper, the digest loop at the end of the page: send_digest_email
\* for the signals whose user has an address and an active plan (the pairs
\* in S), nothing for the others.
ScrDigest(p, S) ==
    /\ proc[p].pc = "page"
    /\ S \subseteq proc[p].new_deals
    /\ digests' = [x \in Pairs |-> digests[x] + IF x \in S THEN 1 ELSE 0]
    /\ proc' = [proc EXCEPT ![p] = IdleProc]
    /\ UNCHANGED <<outbox, workerVars, deal_matches, signal_runs, calls>>
    /\ UNCHANGED dealVars
    /\ UNCHANGED batch_size

\* ------------------------------------------------------------- escalation
\* The recipients a failed row is drawn with, and (to_email or "").strip().
ToEmails == {"user", "admin", " admin ", ""}
Strip(s) == IF s = " admin " THEN "admin" ELSE s

\* An outbox row on either channel, addressed to any recipient, tagged with
\* a match of its own.
EnqueueTo(ch, to) ==
    /\ FreeRows # {}
    /\ outbox' = [outbox EXCEPT ![NextRowId] =
                    NewOutboxRow(ch, to, NextRowId)]
    /\ UNCHANGED <<workerVars, matchVars>>
    /\ UNCHANGED dealVars
    /\ UNCHANGED batch_size

enqueue_admin_alert_NoGuard(ob, failed_row) ==
    IF \A r \in RowIds : ob[r].status # "absent"
    THEN ob
    ELSE [ob EXCEPT ![CHOOSE r \in RowIds :
                        /\ ob[r].status = "absent"
                        /\ \A q \in RowIds : ob[q].status = "absent" => r <= q] =
            NewOutboxRow("log", "admin", failed_row.match_id)]

\* enqueue_admin_alert: nothing for a row addressed to "admin"; else a
\* pending row on channel log, to "admin", with the failed row's match_id
\* (attempts and next_attempt_at take the server defaults 0 and now()).
enqueue_admin_alert(ob, failed_row) ==
    IF Strip(failed_row.to_email) = "admin"
    THEN ob
    ELSE [ob EXCEPT ![CHOOSE r \in RowIds :
                        /\ ob[r].status = "absent"
                        /\ \A q \in RowIds : ob[q].status = "absent" => r <= q] =
            NewOutboxRow("log", "admin", failed_row.match_id)]

\* mark_failed: the row becomes dead with next_attempt_at NULL, is flushed,
\* and enqueue_admin_alert is called for it.
mark_failed(row) ==
    [row EXCEPT !.status = "dead", !.last_error = "error",
                !.next_attempt_at = NULL, !.updated_at = 0]

MarkFailed(r) ==
    /\ Present(r)
    /\ outbox[r].status # "dead"
    /\ Strip(outbox[r].to_email) # "admin" => FreeRows # {}
    /\ LET marked == [outbox EXCEPT ![r] = mark_failed(@)]
       IN  outbox' = enqueue_admin_alert(marked, marked[r])
    /\ UNCHANGED <<workerVars, matchVars>>
    /\ UNCHANGED dealVars
    /\ UNCHANGED batch_size

\* ------------------------------------------------------------ deal store
NotListed == [history |-> <<>>, price_trend |-> "unset",
              previous_price_cents |-> NULL]

\* get_price_trend on the history of a deal, oldest point first: the two
\* latest points are compared. change_pct = (current - previous) / previous
\* * 100 is compared with -5 and 5; for prices in cents within 32 bits the
\* float comparison agrees with the comparison of (current - previous) * 100
\* with -5 * previous and 5 * previous in integers (previous > 0).
get_price_trend(history) ==
    IF Len(history) < 2
    THEN [price_trend |-> "none", previous_price_cents |-> NULL]
    ELSE LET current == history[Len(history)]
             previous == history[Len(history) - 1]
         IN  [price_trend |->
                IF (current - previous) * 100 <= (-5) * previous THEN "down"
                ELSE IF (current - previous) * 100 >= 5 * previous THEN "up"
                ELSE "stable",
              previous_price_cents |-> previous]

\* list_signal_matches, for one deal of the list: the trend of its history.
ListMatches(d) ==
    /\ listed' = [history |-> price_history[d.id],
                  price_trend |->
                        get_price_trend(price_history[d.id]).price_trend,
                  previous_price_cents |->
                        get_price_trend(price_history[d.id]).previous_price_cents]
    /\ UNCHANGED <<outbox, workerVars, matchVars>>
    /\ UNCHANGED <<deals, price_history, upserts, sweep, latest_sweep>>
    /\ UNCHANGED matching
    /\ UNCHANGED batch_size

DealsWithKey(k) == {d \in deals : d.dedupe_key = k}

\* Deal(...): is_active takes its server default, true.
NewDeal(k, price) ==
    [id |-> Cardinality(deals) + 1, dedupe_key |-> k,
     price_cents |-> price, is_active |-> TRUE]

upsert_deal_HistoryOnChange(k, price) ==
    IF DealsWithKey(k) # {}
    THEN LET existing == CHOOSE d \in DealsWithKey(k) : TRUE
         IN  /\ deals' = (deals \ {existing})
                            \cup {[existing EXCEPT !.price_cents = price]}
             /\ price_history' =
                    IF existing.price_cents # price
                    THEN [price_history EXCEPT ![existing.id] =
                                                    Append(@, price)]
                    ELSE price_history
    ELSE /\ deals' = deals \cup {NewDeal(k, price)}
         /\ price_history' = [price_history EXCEPT ![NewDeal(k, price).id] =
                                                        <<price>>]

upsert_deal_KeepsPrice(k, price) ==
    IF DealsWithKey(k) # {}
    THEN LET existing == CHOOSE d \in DealsWithKey(k) : TRUE
         IN  /\ deals' = deals
             /\ price_history' = [price_history EXCEPT ![existing.id] =
                                                    Append(@, price)]
    ELSE /\ deals' = deals \cup {NewDeal(k, price)}
         /\ price_history' = [price_history EXCEPT ![NewDeal(k, price).id] =
                                                        <<price>>]

\* upsert_deal: the deal with the candidate's dedupe key gets the
\* candidate's price and one more history point; without such a deal, a
\* new deal with one history point. Nothing else of an existing deal is
\* written.
upsert_deal(k, price) ==
    IF DealsWithKey(k) # {}
    THEN LET existing == CHOOSE d \in DealsWithKey(k) : TRUE
         IN  /\ deals' = (deals \ {existing})
                            \cup {[existing EXCEPT !.price_cents = price]}
             /\ price_history' = [price_history EXCEPT ![existing.id] =
                                                    Append(@, price)]
    ELSE /\ deals' = deals \cup {NewDeal(k, price)}
         /\ price_history' = [price_history EXCEPT ![NewDeal(k, price).id] =
                                                        <<price>>]

\* run_scraper: a sweep over all pages begins with no key seen.
StartSweep ==
    /\ sweep.pc = "idle"
    /\ sweep' = [pc |-> "sweep", seen |-> {}]
    /\ UNCHANGED <<outbox, workerVars, matchVars>>
    /\ UNCHANGED <<deals, price_history, upserts, latest_sweep, listed>>
    /\ UNCHANGED matching
    /\ UNCHANGED batch_size

\* run_scraper, for a deal of a page: upsert_deal, then the key is added to
\* seen_dedupe_keys.
Upsert(k, price) ==
    /\ sweep.pc = "sweep"
    /\ upserts[k] < MaxUpserts
    /\ upsert_deal(k, price)
    /\ upserts' = [upserts EXCEPT ![k] = @ + 1]
    /\ sweep' = [sweep EXCEPT !.seen = @ \cup {k}]
    /\ UNCHANGED <<outbox, workerVars, matchVars, latest_sweep, listed>>
    /\ UNCHANGED matching
    /\ UNCHANGED batch_size

Deactivate_Deletes(seen_dedupe_keys) ==
    {d \in deals : ~(d.is_active /\ d.dedupe_key \notin seen_dedupe_keys)}

Deactivate(seen_dedupe_keys) ==
    {IF d.is_active /\ d.dedupe_key \notin seen_dedupe_keys
     THEN [d EXCEPT !.is_active = FALSE] ELSE d : d \in deals}

\* run_scraper, after the last page: with a key seen, every active deal
\* whose key was not seen is set inactive; with none seen, nothing.
EndOfPass ==
    /\ sweep.pc = "sweep"
    /\ deals' = IF sweep.seen # {} THEN Deactivate(sweep.seen) ELSE deals
    /\ latest_sweep' = [done |-> TRUE, seen |-> sweep.seen]
    /\ sweep' = [pc |-> "idle", seen |-> {}]
    /\ UNCHANGED <<outbox, workerVars, matchVars, price_history, upserts>>
    /\ UNCHANGED <<listed, matching>>
    /\ UNCHANGED batch_size

\* ------------------------------------------------------------ the matcher
\* Absent values: None for a number is NULL, for a month it is the empty
\* tuple, for a region it is NoRegion; an empty list is the empty set.
NoMonth == <<>>
NoRegion == "None"

\* Python truthiness of an optional number: None and 0 are false.
Truthy(n) == n # NULL /\ n # 0

IsLeap(y) == (y % 4 = 0 /\ y % 100 # 0) \/ y % 400 = 0
DaysInMonth(y, m) ==
    IF m = 2 THEN (IF IsLeap(y) THEN 29 ELSE 28)
    ELSE IF m \in {4, 6, 9, 11} THEN 30 ELSE 31

\* Dates are <<year, month, day>>, months <<year, month>>.
DateLE(a, b) ==
    \/ a[1] < b[1]
    \/ a[1] = b[1] /\ a[2] < b[2]
    \/ a[1] = b[1] /\ a[2] = b[2] /\ a[3] <= b[3]

\* strptime(start_month_str, "%Y-%m").date().replace(day=1)
WindowStart(month) == <<month[1], month[2], 1>>
\* date - timedelta(days=1)
DateMinusOneDay(date) ==
    IF date[3] > 1 THEN <<date[1], date[2], date[3] - 1>>
    ELSE IF date[2] > 1
         THEN <<date[1], date[2] - 1, DaysInMonth(date[1], date[2] - 1)>>
         ELSE <<date[1] - 1, 12, 31>>

WindowEnd_FirstOfMonth(month) == <<month[1], month[2], 1>>

\* December: day 31; else the first day of the next month minus one day.
WindowEnd(month) ==
    IF month[2] = 12 THEN <<month[1], 12, 31>>
    ELSE DateMinusOneDay(<<month[1], month[2] + 1, 1>>)

InWindow(signal, deal) ==
    (signal.start_month # NoMonth /\ signal.end_month # NoMonth)
    => /\ DateLE(WindowStart(signal.start_month), deal.depart_date)
       /\ DateLE(deal.depart_date, WindowEnd(signal.end_month))

match_deal_to_signals_BudgetPerPerson(signal, deal) ==
    /\ signal.status = "active"
    /\ deal.gateway \in signal.departure_airports
    /\ deal.region \in signal.destination_regions
    /\ InWindow(signal, deal)
    /\ ~(Truthy(signal.min_nights) /\ deal.duration_days < signal.min_nights)
    /\ ~(Truthy(signal.max_nights) /\ deal.duration_days > signal.max_nights)
    /\ ~(Truthy(signal.min_star_rating) /\ deal.star_rating # NULL
         /\ deal.star_rating < signal.min_star_rating)
    /\ ~(Truthy(signal.target_pp) /\ signal.strict
         /\ deal.price_cents > signal.target_pp * 100)

\* match_deal_to_signals, for one signal: whether it is returned for the
\* deal. Only active signals are selected; each test that fails skips the
\* signal.
match_deal_to_signals(signal, deal) ==
    /\ signal.status = "active"
    /\ deal.gateway \in signal.departure_airports
    /\ deal.region \in signal.destination_regions
    /\ InWindow(signal, deal)
    /\ ~(Truthy(signal.min_nights) /\ deal.duration_days < signal.min_nights)
    /\ ~(Truthy(signal.max_nights) /\ deal.duration_days > signal.max_nights)
    /\ ~(Truthy(signal.min_star_rating) /\ deal.star_rating # NULL
         /\ deal.star_rating < signal.min_star_rating)
    /\ ~(Truthy(signal.target_pp) /\ signal.strict
         /\ deal.price_cents > signal.target_pp * signal.adults * 100)

\* The signals and deals the matcher is run on. A signal sets every
\* constraint or omits exactly one of them (in each way the code can read as
\* omitted); a deal has every attribute, or lacks its region or its rating.
SignalDomain ==
    [status : {"active", "paused"},
     departure_airports : {{}, {"YYZ"}},
     destination_regions : {{}, {"mexico"}},
     start_month : {NoMonth, <<2026, 2>>, <<2025, 12>>},
     end_month : {NoMonth, <<2026, 4>>, <<2025, 12>>},
     min_nights : {NULL, 7},
     max_nights : {NULL, 10},
     min_star_rating : {NULL, 3},
     target_pp : {NULL, 900},
     strict : BOOLEAN,
     adults : {1, 2}]

Omissions(signal) ==
    (IF signal.departure_airports = {} THEN 1 ELSE 0)
    + (IF signal.destination_regions = {} THEN 1 ELSE 0)
    + (IF signal.start_month = NoMonth \/ signal.end_month = NoMonth
       THEN 1 ELSE 0)
    + (IF signal.min_nights = NULL \/ signal.max_nights = NULL THEN 1 ELSE 0)
    + (IF signal.min_star_rating = NULL THEN 1 ELSE 0)
    + (IF signal.target_pp = NULL \/ ~signal.strict THEN 1 ELSE 0)

SignalConfigs ==
    {signal \in SignalDomain :
        /\ Omissions(signal) <= 1
        /\ (signal.start_month = <<2025, 12>>)
                <=> (signal.end_month = <<2025, 12>>)
        /\ signal.target_pp = NULL => signal.strict}

DealConfigs ==
    [gateway : {"YYZ", "YVR"},
     region : {"mexico", "cuba", NoRegion},
     depart_date : {<<2025, 12, 31>>, <<2026, 1, 31>>, <<2026, 2, 1>>,
                    <<2026, 4, 30>>, <<2026, 5, 1>>},
     duration_days : {6, 7, 10, 11},
     star_rating : {NULL, 2, 3},
     price_cents : {90000, 180000, 180001}]

NotMatching == [result |-> "unset", pass |-> "none"]
ThePair == <<"s1", 1>>

\* match_deal_to_signals(db, deal, deal_meta) in a pass.
EvalMatch ==
    /\ matching.result = "unset"
    /\ matching.pass = "running"
    /\ matching' = [matching EXCEPT !.result =
            IF match_deal_to_signals(matching.signal, matching.deal)
            THEN "yes" ELSE "no"]
    /\ UNCHANGED <<outbox, workerVars, matchVars>>
    /\ UNCHANGED <<deals, price_history, upserts, sweep, latest_sweep, listed>>
    /\ UNCHANGED batch_size

\* The loop over matched_signals of run_scraper and of run_matching_only: a
\* DealMatch is added and committed for a returned signal without one. In
\* run_matching_only the call of send_alert_email that follows raises
\* NameError (no such name in the module), which ends the pass.
RecordPass ==
    /\ matching.result \in {"yes", "no"}
    /\ matching.pass = "running"
    /\ IF matching.result = "yes" /\ MatchRows(ThePair) = {}
       THEN /\ deal_matches' = deal_matches \cup
                    {[id |-> NextMatchId, pair |-> ThePair, run_id |-> NULL]}
            /\ matching' = [matching EXCEPT !.pass =
                    IF matching.kind = "match_only" THEN "crashed"
                    ELSE "done"]
       ELSE /\ matching' = [matching EXCEPT !.pass = "done"]
            /\ UNCHANGED deal_matches
    /\ UNCHANGED <<outbox, workerVars, signal_runs, proc, digests, calls>>
    /\ UNCHANGED <<deals, price_history, upserts, sweep, latest_sweep, listed>>
    /\ UNCHANGED batch_size

\* ------------------------------------------------- the loop over signals
\* strptime(s, "%Y-%m") raises ValueError for a month outside 1..12.
ValidMonth(month) == month[2] \in 1..12

\* The try body of match_deal_to_signals raises for the signal: the tests of
\* the airport and of the region passed, both months are set, and one of
\* them does not parse.
Raises(signal, deal) ==
    /\ signal.status = "active"
    /\ deal.gateway \in signal.departure_airports
    /\ deal.region \in signal.destination_regions
    /\ signal.start_month # NoMonth /\ signal.end_month # NoMonth
    /\ ~ValidMonth(signal.start_month) \/ ~ValidMonth(signal.end_month)

\* The signals and deals of a pass of two signals over two deals.
GoodSignal ==
    [status |-> "active", departure_airports |-> {"YYZ"},
     destination_regions |-> {"mexico"}, start_month |-> <<2026, 2>>,
     end_month |-> <<2026, 4>>, min_nights |-> NULL, max_nights |-> NULL,
     min_star_rating |-> NULL, target_pp |-> NULL, strict |-> FALSE,
     adults |-> 2]

PassSignals ==
    {GoodSignal,
     [GoodSignal EXCEPT !.end_month = <<2026, 13>>],
     [GoodSignal EXCEPT !.start_month = <<2026, 0>>],
     [GoodSignal EXCEPT !.status = "paused", !.end_month = <<2026, 13>>],
     [GoodSignal EXCEPT !.departure_airports = {"YVR"},
                        !.end_month = <<2026, 13>>]}

PassDeals ==
    {d \in DealConfigs :
        /\ d.region = "mexico"
        /\ d.depart_date \in {<<2026, 2, 1>>, <<2026, 5, 1>>}
        /\ d.duration_days = 7
        /\ d.star_rating = 3
        /\ d.price_cents = 90000}

CurrentSignal == matching.signals[matching.s]
CurrentDeal == matching.deals[matching.d]

except_continue_Propagates(m) ==
    [m EXCEPT !.raised = @ \cup {<<m.s, m.d>>},
              !.s = 1, !.matches = {},
              !.d = IF m.d = Len(m.deals) THEN @ ELSE @ + 1,
              !.pass = IF m.d = Len(m.deals) THEN "done" ELSE "running"]

\* except Exception: the warning is logged and the loop continues with the
\* next signal; matches keeps what was appended before.
except_continue(m) ==
    [m EXCEPT !.raised = @ \cup {<<m.s, m.d>>},
              !.evaluated = @ \cup {<<m.s, m.d>>},
              !.s = @ + 1]

\* match_deal_to_signals, one turn of the loop: the signal is appended to
\* matches when every test passes, skipped when one fails, and handed to
\* the except clause when the body raises. (A signal that is not active is
\* not among the rows selected; its turn changes nothing.)
TrySignal ==
    /\ matching.pass = "running"
    /\ matching.s <= Len(matching.signals)
    /\ matching' =
        IF Raises(CurrentSignal, CurrentDeal)
        THEN except_continue(matching)
        ELSE [matching EXCEPT
                !.matches =
                    IF match_deal_to_signals(CurrentSignal, CurrentDeal)
                    THEN @ \cup {matching.s} ELSE @,
                !.evaluated = @ \cup {<<matching.s, matching.d>>},
                !.s = @ + 1]
    /\ UNCHANGED <<outbox, workerVars, matchVars>>
    /\ UNCHANGED <<deals, price_history, upserts, sweep, latest_sweep, listed>>
    /\ UNCHANGED batch_size

\* return matches; the pass goes on to its next deal, or ends after the
\* last.
ReturnMatches ==
    /\ matching.pass = "running"
    /\ matching.s > Len(matching.signals)
    /\ matching' =
        [matching EXCEPT
            !.returned = @ \cup {<<s, matching.d>> : s \in matching.matches},
            !.matches = {},
            !.s = 1,
            !.d = IF matching.d = Len(matching.deals) THEN @ ELSE @ + 1,
            !.pass = IF matching.d = Len(matching.deals) THEN "done"
                     ELSE "running"]
    /\ UNCHANGED <<outbox, workerVars, matchVars>>
    /\ UNCHANGED <<deals, price_history, upserts, sweep, latest_sweep, listed>>
    /\ UNCHANGED batch_size

\* ------------------------------------------------------------------ system
InitBase ==
    /\ outbox = [r \in RowIds |-> NoRow]
    /\ chan \in [Workers -> Channels]
    /\ ~(chan["w1"] = "log" /\ chan["w2"] = "email")
    /\ pc = [w \in Workers |-> "poll"]
    /\ locked = [w \in Workers |-> {}]
    /\ batch = [w \in Workers |-> <<>>]
    /\ loaded = [w \in Workers |-> NoLoad]
    /\ crashes = 0
    /\ deal_matches = {}
    /\ signal_runs = <<>>
    /\ proc = [p \in Procs |-> IdleProc]
    /\ digests = [x \in Pairs |-> 0]
    /\ calls = [x \in Pairs |-> 0]
    /\ deals = {}
    /\ price_history = [i \in DealRowIds |-> <<>>]
    /\ upserts = [k \in DedupeKeys |-> 0]
    /\ sweep = [pc |-> "idle", seen |-> {}]
    /\ latest_sweep = [done |-> FALSE, seen |-> {}]
    /\ listed = NotListed

\* Every worker process runs with the same NOTIFICATIONS_BATCH_SIZE.
Init ==
    /\ InitBase
    /\ matching = NotMatching
    /\ batch_size = [w \in Workers |-> BATCH_SIZE]

WorkerStep(w) ==
    \/ ClaimSelect(w)
    \/ ClaimCommit(w)
    \/ DeliverOk(w)
    \/ DeliverFail(w)

Next ==
    \/ \E ch \in Channels : Enqueue(ch)
    \/ \E w \in Workers : WorkerStep(w)
    \/ \E w \in Workers : Crash(w)
    \/ Advance

Spec == Init /\ [][Next]_vars

\* The match recorder alone: API requests and scraper pages, no worker.
InitMatch ==
    /\ Init
    /\ chan = [w \in Workers |-> "log"]

NextMatch ==
    \/ \E p \in Procs, x \in Pairs : ApiInsert(p, x)
    \/ \E p \in Procs : ApiCommit(p)
    \/ \E p \in Procs, x \in Pairs : ScrCheck(p, x)
    \/ \E p \in Procs : ScrInsert(p)
    \/ \E p \in Procs : \E S \in SUBSET Pairs : ScrDigest(p, S)

SpecMatch == InitMatch /\ [][NextMatch]_vars

\* mark_failed and enqueue_admin_alert alone, on rows of any recipient.
NextEscalate ==
    \/ \E ch \in Channels, to \in ToEmails : EnqueueTo(ch, to)
    \/ \E r \in RowIds : MarkFailed(r)

SpecEscalate == InitMatch /\ [][NextEscalate]_vars

\* The scraper's sweeps over the deal store, one after the other.
NextDeals ==
    \/ StartSweep
    \/ \E k \in DedupeKeys, price \in PriceCents : Upsert(k, price)
    \/ EndOfPass
    \/ \E d \in deals : ListMatches(d)

SpecDeals == InitMatch /\ [][NextDeals]_vars

\* One matching pass over one deal and one signal, drawn from the domains.
InitMatcher ==
    /\ InitBase
    /\ chan = [w \in Workers |-> "log"]
    /\ matching \in [signal : SignalConfigs, deal : DealConfigs,
                     kind : {"scrape", "match_only"},
                     result : {"unset"}, pass : {"running"}]
    /\ batch_size = [w \in Workers |-> BATCH_SIZE]

NextMatcher ==
    \/ EvalMatch
    \/ RecordPass

SpecMatcher == InitMatcher /\ [][NextMatcher]_vars

\* API requests that record matches, next to workers that deliver the rows
\* the requests enqueue (every delivery succeeds), with the clock of the
\* 24 hours.
NextNotify ==
    \/ \E p \in Procs, x \in Pairs : ApiInsert(p, x)
    \/ \E p \in Procs : ApiCommit(p)
    \/ \E w \in Workers : ClaimSelect(w) \/ ClaimCommit(w) \/ DeliverOk(w)
    \/ \E r \in RowIds : Cooled(r)

SpecNotify == InitMatch /\ [][NextNotify]_vars

\* The rows claim_batch may find in the table: a new row, a row waiting for
\* its retry, a row claimed a moment ago, a row left in sending for more
\* than 5 minutes, a row delivered and a row given up by either worker.
ClaimRowsOf(ch) ==
    {[NewOutboxRow(ch, IF ch = "email" THEN "user" ELSE "log", NULL) EXCEPT
        !.status = x.status, !.attempts = x.attempts,
        !.next_attempt_at = x.next_attempt_at, !.updated_at = x.updated_at,
        !.last_error = x.last_error] :
      x \in {[status |-> "pending", attempts |-> 0, next_attempt_at |-> 0,
              updated_at |-> 0, last_error |-> NoError],
             [status |-> "pending", attempts |-> 1,
              next_attempt_at |-> BACKOFF_SECONDS[1],
              updated_at |-> 0, last_error |-> "error"],
             [status |-> "sending", attempts |-> 1, next_attempt_at |-> 0,
              updated_at |-> 0, last_error |-> NoError],
             [status |-> "sending", attempts |-> 1, next_attempt_at |-> 0,
              updated_at |-> STALE_SECONDS + 1, last_error |-> NoError],
             [status |-> "sent", attempts |-> 1,
              next_attempt_at |-> IF ch = "email" THEN NULL ELSE 0,
              updated_at |-> 0, last_error |-> NoError],
             [status |-> "dead", attempts |-> MAX_ATTEMPTS,
              next_attempt_at |-> IF ch = "email" THEN NULL ELSE 0,
              updated_at |-> 0, last_error |-> "error"]}}

ClaimRows == UNION {ClaimRowsOf(ch) : ch \in Channels}

\* claim_batch on a table in any of these states, by worker processes with
\* any NOTIFICATIONS_BATCH_SIZE up to BATCH_SIZE.
InitClaim ==
    /\ outbox \in [RowIds -> ClaimRows \cup {NoRow}]
    /\ \A r \in RowIds : ~Present(r) => \A q \in RowIds : q > r => ~Present(q)
    /\ chan \in [Workers -> Channels]
    /\ ~(chan["w1"] = "log" /\ chan["w2"] = "email")
    /\ pc = [w \in Workers |-> "poll"]
    /\ locked = [w \in Workers |-> {}]
    /\ batch = [w \in Workers |-> <<>>]
    /\ loaded = [w \in Workers |-> NoLoad]
    /\ crashes = 0
    /\ deal_matches = {}
    /\ signal_runs = <<>>
    /\ proc = [p \in Procs |-> IdleProc]
    /\ digests = [x \in Pairs |-> 0]
    /\ calls = [x \in Pairs |-> 0]
    /\ deals = {}
    /\ price_history = [i \in DealRowIds |-> <<>>]
    /\ upserts = [k \in DedupeKeys |-> 0]
    /\ sweep = [pc |-> "idle", seen |-> {}]
    /\ latest_sweep = [done |-> FALSE, seen |-> {}]
    /\ listed = NotListed
    /\ matching = NotMatching
    /\ batch_size \in [Workers -> 1..BATCH_SIZE]

NextClaim ==
    \/ \E w \in Workers : ClaimSelect(w)
    \/ \E w \in Workers : ClaimCommit(w)

SpecClaim == InitClaim /\ [][NextClaim]_vars

\* The three places that insert outbox rows: enqueue_test_email,
\* create_signal_match, and enqueue_admin_alert (reached through
\* mark_failed).
NextEnqueue ==
    \/ \E ch \in Channels : Enqueue(ch)
    \/ \E p \in Procs, x \in Pairs : ApiInsert(p, x)
    \/ \E p \in Procs : ApiCommit(p)
    \/ \E r \in RowIds : MarkFailed(r)

SpecEnqueue == InitMatch /\ [][NextEnqueue]_vars

\* notifications_worker_runner.main: thread t1 for the email worker, t2 for
\* the log worker, neither started yet.
InitRunner ==
    /\ outbox = [r \in RowIds |-> NoRow]
    /\ chan = [w \in Workers |-> IF w = "w1" THEN "email" ELSE "log"]
    /\ pc = [w \in Workers |-> "unstarted"]
    /\ locked = [w \in Workers |-> {}]
    /\ batch = [w \in Workers |-> <<>>]
    /\ loaded = [w \in Workers |-> NoLoad]
    /\ crashes = 0
    /\ deal_matches = {}
    /\ signal_runs = <<>>
    /\ proc = [p \in Procs |-> IdleProc]
    /\ digests = [x \in Pairs |-> 0]
    /\ calls = [x \in Pairs |-> 0]
    /\ deals = {}
    /\ price_history = [i \in DealRowIds |-> <<>>]
    /\ upserts = [k \in DedupeKeys |-> 0]
    /\ sweep = [pc |-> "idle", seen |-> {}]
    /\ latest_sweep = [done |-> FALSE, seen |-> {}]
    /\ listed = NotListed
    /\ matching = NotMatching
    /\ batch_size = [w \in Workers |-> BATCH_SIZE]

NextRunner ==
    \/ \E ch \in Channels : Enqueue(ch)
    \/ \E w \in Workers : StartThread(w)
    \/ \E w \in Workers : WorkerStep(w)
    \/ Advance

\* The runner stays alive: its threads are scheduled, each worker loop that
\* runs keeps running, and the clock reaches every deadline.
SpecRunner ==
    /\ InitRunner /\ [][NextRunner]_vars
    /\ \A w \in Workers : WF_vars(StartThread(w)) /\ WF_vars(WorkerStep(w))
    /\ \A r \in RowIds : WF_vars(Due(r)) /\ WF_vars(Stale(r))

\* The recorders of matches (API requests that succeed or fail, scraper
\* pages) next to workers that deliver the rows the requests enqueue.
NextRecord ==
    \/ \E p \in Procs, x \in Pairs : ApiInsert(p, x)
    \/ \E p \in Procs : ApiCommit(p)
    \/ \E p \in Procs : ApiFail(p)
    \/ \E p \in Procs, x \in Pairs : ScrCheck(p, x)
    \/ \E p \in Procs : ScrInsert(p)
    \/ \E p \in Procs : \E S \in SUBSET Pairs : ScrDigest(p, S)
    \/ \E w \in Workers : ClaimSelect(w) \/ ClaimCommit(w) \/ DeliverOk(w)

SpecRecord == InitMatch /\ [][NextRecord]_vars

\* A signal that sets every constraint, active or paused, and a deal from
\* its departure airport that has every attribute: a matching pass over the
\* two, next to requests to create_signal_match for the same pair.
InitPass ==
    /\ InitBase
    /\ chan = [w \in Workers |-> "log"]
    /\ matching \in [signal : {s \in SignalConfigs : Omissions(s) = 0},
                     deal : {d \in DealConfigs :
                                /\ d.gateway = "YYZ"
                                /\ d.region # NoRegion
                                /\ d.star_rating # NULL},
                     kind : {"scrape", "match_only"},
                     result : {"unset"}, pass : {"running"}]
    /\ batch_size = [w \in Workers |-> BATCH_SIZE]

NextPass ==
    \/ EvalMatch
    \/ RecordPass
    \/ \E p \in Procs : ApiInsert(p, ThePair)
    \/ \E p \in Procs : ApiCommit(p)

SpecPass == InitPass /\ [][NextPass]_vars

\* A pass of two signals, drawn from PassSignals, over two deals.
InitLoop ==
    /\ InitBase
    /\ chan = [w \in Workers |-> "log"]
    /\ matching \in [signals : [1..2 -> PassSignals],
                     deals : [1..2 -> PassDeals],
                     s : {1}, d : {1}, matches : {{}}, returned : {{}},
                     raised : {{}}, evaluated : {{}}, pass : {"running"}]
    /\ batch_size = [w \in Workers |-> BATCH_SIZE]

NextLoop ==
    \/ TrySignal
    \/ ReturnMatches

SpecLoop == InitLoop /\ [][NextLoop]_vars

\* Windows that begin and end in any of these months (December, February
\* of a common and of a leap year among them), and deals that depart on the
\* days around the ends of those months.
WindowMonths == {<<2025, 12>>, <<2026, 1>>, <<2026, 2>>, <<2026, 4>>,
                 <<2028, 2>>}

WindowDates ==
    {<<2025, 11, 30>>, <<2025, 12, 1>>, <<2025, 12, 31>>, <<2026, 1, 1>>,
     <<2026, 1, 31>>, <<2026, 2, 1>>, <<2026, 2, 28>>, <<2026, 3, 1>>,
     <<2026, 4, 30>>, <<2026, 5, 1>>, <<2028, 1, 31>>, <<2028, 2, 28>>,
     <<2028, 2, 29>>, <<2028, 3, 1>>}

InitWindow ==
    /\ InitBase
    /\ chan = [w \in Workers |-> "log"]
    /\ matching \in
        [signal : {[GoodSignal EXCEPT !.start_month = a, !.end_month = b] :
                        a \in WindowMonths, b \in WindowMonths},
         deal : {[gateway |-> "YYZ", region |-> "mexico", depart_date |-> d,
                  duration_days |-> 7, star_rating |-> 3,
                  price_cents |-> 90000] : d \in WindowDates},
         kind : {"scrape"}, result : {"unset"}, pass : {"running"}]
    /\ batch_size = [w \in Workers |-> BATCH_SIZE]

SpecWindow == InitWindow /\ [][NextMatcher]_vars

\* The scraper's sweeps with the recording of matches for the deals it has
\* upserted (one scraper process, the pages' digests left out).
\* run_scraper: the matches of a deal are looked up after its upsert.
ScrCheckDeal(p, x) ==
    /\ \E d \in deals : d.id = x[2]
    /\ ScrCheck(p, x)

NextSweep ==
    \/ StartSweep
    \/ \E k \in DedupeKeys, price \in {9500, 10000} : Upsert(k, price)
    \/ EndOfPass
    \/ \E x \in Pairs : ScrCheckDeal("p1", x)
    \/ ScrInsert("p1")

SpecSweep == InitMatch /\ [][NextSweep]_vars

\* Every worker loop keeps running (while True around claim, process, sleep)
\* and the clock reaches every deadline.
SpecLive ==
    /\ Init /\ [][Next]_vars
    /\ \A w \in Workers : WF_vars(WorkerStep(w))
    /\ \A r \in RowIds : WF_vars(Due(r)) /\ WF_vars(Stale(r))

\* ------------------------------------------------------------------ claims
Terminal(r) == outbox[r].status \in {"sent", "dead"}
Holding(w) == {batch[w][i] : i \in 1..Len(batch[w])}

\* The step is the committing half of a claim_batch call of w that holds r.
ClaimCommits(w, r) ==
    pc[w] = "claiming" /\ r \in locked[w] /\ pc'[w] = "deliver"

\* C1: the row sets of two claim_batch calls that are open at the same time
\* are disjoint: no row is selected by both claimers.
C1_ConcurrentClaimsDisjoint ==
    \A w1, w2 \in Workers :
        w1 # w2 => locked[w1] \cap locked[w2] = {}

C1_Witness ==
    \E w1, w2 \in Workers :
        /\ w1 # w2 /\ chan[w1] = chan[w2]
        /\ pc[w1] = "claiming" /\ pc[w2] = "claiming"
        /\ locked[w1] # {} /\ locked[w2] # {}

\* The notifications of a pair: the outbox rows of its match, and the digest
\* emails that list it.
Notifications(x) ==
    Cardinality({r \in RowIds :
        Present(r) /\ \E m \in MatchRows(x) : outbox[r].match_id = m.id})
    + digests[x]

\* C2: a (signal, deal) pair never has more than one DealMatch row nor more
\* than one notification (outbox rows of its match plus digests that list
\* it), and has exactly one row once a recording of the pair has ended;
\* so a later pass over the pair adds no row and no notification.
C2_OneMatchOneNotification ==
    \A x \in Pairs :
        /\ Cardinality(MatchRows(x)) <= 1
        /\ Notifications(x) <= 1
        /\ calls[x] > 0 => Cardinality(MatchRows(x)) = 1

C2_Witness ==
    \E x \in Pairs :
        /\ calls[x] >= 3
        /\ Cardinality(MatchRows(x)) = 1
        /\ Notifications(x) = 1

\* C3: a failed delivery (mark_retry on a sending row) sets the row back to
\* pending with a next attempt while attempts < 8, and makes it dead with
\* next_attempt_at = NULL when attempts >= 8.
C3_RetryUntilDeadWithNull ==
    [][\A r \in RowIds :
        (outbox[r].status = "sending"
         /\ outbox'[r].status \notin {"sending", "sent"})
        => IF outbox[r].attempts >= MAX_ATTEMPTS
           THEN outbox'[r].status = "dead" /\ outbox'[r].next_attempt_at = NULL
           ELSE outbox'[r].status = "pending"
                /\ outbox'[r].next_attempt_at # NULL]_vars

\* C4: every transition of a row not addressed to the admin recipient to
\* dead inserts one new pending log-channel row addressed to the admin.
C4_DeadEnqueuesAdminAlert ==
    [][\A r \in RowIds :
        (Present(r) /\ outbox[r].status # "dead" /\ outbox'[r].status = "dead"
         /\ outbox[r].to_email # "admin")
        => \E q \in RowIds :
              /\ ~Present(q)
              /\ outbox'[q].status = "pending"
              /\ outbox'[q].channel = "log"
              /\ outbox'[q].to_email = "admin"]_vars

\* C5: next_attempt_at is NULL exactly for the rows that are sent or dead.
C5_NextAttemptNullIffTerminal ==
    \A r \in RowIds :
        Present(r) => ((outbox[r].next_attempt_at = NULL) <=> Terminal(r))

\* C6: sent and dead are terminal: no step changes the status of a row that
\* is sent or dead.
C6_TerminalStatusNeverChanges ==
    [][\A r \in RowIds :
        Terminal(r) => outbox'[r].status = outbox[r].status]_vars

\* C7: no row is in the hands of two workers at once (claimed by each and
\* finished by neither).
C7_NoRowHeldByTwoWorkers ==
    \A w1, w2 \in Workers :
        w1 # w2 => Holding(w1) \cap Holding(w2) = {}

\* C8: a row left in sending (by a crashed worker or by any other) whose
\* updated_at is more than 5 minutes old satisfies the claim query of its channel; a
\* claim_batch on the channel selects it unless another claimer holds it or
\* the batch is full, and the claim sets it to sending with attempts + 1.
C8_StaleSendingReclaimed ==
    [][\A r \in RowIds :
        (outbox[r].status = "sending"
         /\ outbox[r].updated_at > STALE_SECONDS)
        => /\ Eligible(outbox[r], outbox[r].channel)
           /\ \A w \in Workers :
                (chan[w] = outbox[r].channel /\ pc[w] = "poll"
                 /\ pc'[w] = "claiming")
                => \/ r \in locked'[w]
                   \/ r \in LockedByOthers(w)
                   \/ Cardinality(locked'[w]) = BATCH_SIZE
           /\ \A w \in Workers :
                ClaimCommits(w, r)
                => /\ outbox'[r].status = "sending"
                   /\ outbox'[r].attempts = outbox[r].attempts + 1
                   /\ outbox'[r].updated_at = 0]_vars

\* The row was claimed twice and never marked, and one worker holds it:
\* the first claimer crashed and the row was claimed again.
C8_Witness ==
    \E r \in RowIds : \E w \in Workers :
        /\ crashes > 0
        /\ outbox[r].status = "sending"
        /\ outbox[r].attempts = 2
        /\ outbox[r].last_error = NoError
        /\ r \in Holding(w)
        /\ \A v \in Workers \ {w} : r \notin Holding(v)

\* C9: attempts never decreases, and it changes only in the commit of a
\* claim_batch that holds the row, by exactly one.
C9_AttemptsOnlyByClaim ==
    [][\A r \in RowIds :
        IF Present(r)
        THEN \/ outbox'[r].attempts = outbox[r].attempts
             \/ /\ outbox'[r].attempts = outbox[r].attempts + 1
                /\ \E w \in Workers : ClaimCommits(w, r)
        ELSE Present(r)' => outbox'[r].attempts = 0]_vars

C9_Witness ==
    \E r \in RowIds :
        /\ outbox[r].status = "sent"
        /\ outbox[r].attempts >= 2

\* C10: with every worker loop running and time advancing, a row whose
\* channel has a worker eventually is sent or dead.
C10_EventuallySentOrDead ==
    \A r \in RowIds :
        (Present(r) /\ \E w \in Workers : chan[w] = outbox[r].channel)
            ~> Terminal(r)

C10_Witness ==
    \E r \in RowIds :
        /\ outbox[r].status = "dead"
        /\ outbox[r].attempts >= MAX_ATTEMPTS


C12_OneDealOnePointPerUpsert ==
    \A k \in DedupeKeys :
        IF upserts[k] = 0
        THEN DealsWithKey(k) = {}
        ELSE /\ Cardinality(DealsWithKey(k)) = 1
             /\ \A d \in DealsWithKey(k) :
                    Len(price_history[d.id]) = upserts[k]

\* Three upserts of one key, the last two at the same price.
C12_Witness ==
    \E d \in deals :
        /\ upserts[d.dedupe_key] = 3
        /\ Len(price_history[d.id]) = 3
        /\ price_history[d.id][2] = price_history[d.id][3]

\* C13: the end of a sweep leaves inactive every deal whose key is not among
\* the keys seen in the sweep, whatever that set is (the empty set too),
\* and does not change the active flag of a deal whose key was seen.
C13_EndOfPassDeactivatesUnseen ==
    [][(sweep.pc = "sweep" /\ sweep'.pc = "idle")
       => /\ \A d \in deals' :
                d.dedupe_key \notin sweep.seen => ~d.is_active
          /\ \A d \in deals :
                d.dedupe_key \in sweep.seen => d \in deals']_vars

\* C14: once a sweep has completed, every deal whose key was seen in the
\* latest completed sweep is active.
C14_SeenInLatestSweepIsActive ==
    latest_sweep.done
    => \A d \in deals : d.dedupe_key \in latest_sweep.seen => d.is_active

\* C15: the trend returned for a history of at least two points is "down"
\* exactly when the latest price is more than 5% below the one before it,
\* "up" exactly when it is more than 5% above it, and "stable" otherwise;
\* for a shorter history it is none.
C15_TrendThresholdsAreStrict ==
    listed.price_trend # "unset"
    => LET h == listed.history
       IN  IF Len(h) < 2
           THEN listed.price_trend = "none"
           ELSE /\ (listed.price_trend = "down"
                        <=> h[Len(h)] * 100 < 95 * h[Len(h) - 1])
                /\ (listed.price_trend = "up"
                        <=> h[Len(h)] * 100 > 105 * h[Len(h) - 1])
                /\ listed.price_trend \in {"down", "up", "stable"}

\* C16: for an active signal that sets every constraint and a deal that has
\* every attribute, the signal is returned exactly when the six predicates
\* hold: origin, region, departure in a month of the window, nights
\* within the bounds, rating at least the minimum, and under a strict
\* budget price <= target per person x adults.
C16_MatchesIffAllSixPredicates ==
    LET signal == matching.signal
        deal == matching.deal
    IN  (/\ matching.result \in {"yes", "no"}
         /\ signal.status = "active"
         /\ Omissions(signal) = 0
         /\ deal.region # NoRegion
         /\ deal.star_rating # NULL)
        => (matching.result = "yes"
            <=> /\ deal.gateway \in signal.departure_airports
                /\ deal.region \in signal.destination_regions
                /\ DateLE(<<signal.start_month[1], signal.start_month[2], 1>>,
                          <<deal.depart_date[1], deal.depart_date[2], 1>>)
                /\ DateLE(<<deal.depart_date[1], deal.depart_date[2], 1>>,
                          <<signal.end_month[1], signal.end_month[2], 1>>)
                /\ deal.duration_days >= signal.min_nights
                /\ deal.duration_days <= signal.max_nights
                /\ deal.star_rating >= signal.min_star_rating
                /\ deal.price_cents
                        <= signal.target_pp * 100 * signal.adults)

\* A deal matched on the last day of a window that ends in December, at
\* the price of the budget of two adults.
C16_Witness ==
    /\ matching.result = "yes"
    /\ Omissions(matching.signal) = 0
    /\ matching.signal.adults = 2
    /\ matching.deal.price_cents = 180000
    /\ matching.deal.depart_date = <<2025, 12, 31>>
    /\ matching.deal.duration_days = 10
    /\ matching.deal.star_rating = 3

\* C17: a predicate whose input is missing on either side does not
\* disqualify: the signal is returned exactly when it is active and every
\* predicate that has both of its inputs holds.
C17_MissingInputNeverDisqualifies ==
    LET signal == matching.signal
        deal == matching.deal
    IN  (matching.result \in {"yes", "no"} /\ signal.status = "active")
        => (matching.result = "yes"
            <=> /\ \/ signal.departure_airports = {}
                   \/ deal.gateway \in signal.departure_airports
                /\ \/ signal.destination_regions = {}
                   \/ deal.region = NoRegion
                   \/ deal.region \in signal.destination_regions
                /\ \/ signal.start_month = NoMonth
                   \/ signal.end_month = NoMonth
                   \/ /\ DateLE(<<signal.start_month[1],
                                  signal.start_month[2], 1>>,
                                <<deal.depart_date[1],
                                  deal.depart_date[2], 1>>)
                      /\ DateLE(<<deal.depart_date[1],
                                  deal.depart_date[2], 1>>,
                                <<signal.end_month[1],
                                  signal.end_month[2], 1>>)
                /\ \/ signal.min_nights = NULL
                   \/ deal.duration_days >= signal.min_nights
                /\ \/ signal.max_nights = NULL
                   \/ deal.duration_days <= signal.max_nights
                /\ \/ signal.min_star_rating = NULL
                   \/ deal.star_rating = NULL
                   \/ deal.star_rating >= signal.min_star_rating
                /\ \/ ~signal.strict
                   \/ signal.target_pp = NULL
                   \/ deal.price_cents
                        <= signal.target_pp * 100 * signal.adults)

\* C18: when the pass has completed, the pair of the deal and an active
\* signal that matches it (each predicate that has both of its inputs
\* holds) has a DealMatch row.
C18_CompletedPassRecordsEveryMatch ==
    LET signal == matching.signal
        deal == matching.deal
    IN  (/\ matching.pass = "done"
         /\ signal.status = "active"
         /\ \/ signal.departure_airports = {}
            \/ deal.gateway \in signal.departure_airports
         /\ \/ signal.destination_regions = {}
            \/ deal.region = NoRegion
            \/ deal.region \in signal.destination_regions
         /\ \/ signal.start_month = NoMonth
            \/ signal.end_month = NoMonth
            \/ /\ DateLE(<<signal.start_month[1], signal.start_month[2], 1>>,
                         <<deal.depart_date[1], deal.depart_date[2], 1>>)
               /\ DateLE(<<deal.depart_date[1], deal.depart_date[2], 1>>,
                         <<signal.end_month[1], signal.end_month[2], 1>>)
         /\ signal.min_nights = NULL \/ deal.duration_days >= signal.min_nights
         /\ signal.max_nights = NULL \/ deal.duration_days <= signal.max_nights
         /\ \/ signal.min_star_rating = NULL
            \/ deal.star_rating = NULL
            \/ deal.star_rating >= signal.min_star_rating
         /\ \/ ~signal.strict
            \/ signal.target_pp = NULL
            \/ deal.price_cents <= signal.target_pp * 100 * signal.adults)
        => MatchRows(ThePair) # {}

\* C19: create_signal_match on a pair that has a DealMatch row adds no row
\* and no outbox row, ends without an error, and leaves the existing row
\* with the run of this call as its run_id.
C19_ExistingPairIsIdempotentSuccess ==
    [][\A p \in Procs, x \in Pairs :
        (/\ proc[p].pc = "idle"
         /\ proc'[p].pc = "idle"
         /\ proc'[p] # proc[p]
         /\ MatchRows(x) # {}
         /\ calls'[x] = calls[x] + 1)
        => /\ proc'[p].response = "existing"
           /\ Cardinality(deal_matches') = Cardinality(deal_matches)
           /\ outbox' = outbox
           /\ Len(signal_runs') = Len(signal_runs) + 1
           /\ \A m \in deal_matches' :
                m.pair = x => m.run_id = Len(signal_runs')]_vars

\* C20: a recording that loses the race for a new pair (its insert meets the
\* row the other one committed) adds no row, ends without an error, and a
\* scraper that lost goes on with the rest of its page, keeping the deals it
\* has collected for the digest.
C20_LoserOfInsertRaceGoesOn ==
    [][\A p \in Procs :
        (/\ proc[p].pc = "scr_insert"
         /\ proc'[p] # proc[p]
         /\ MatchRows(proc[p].pair) # {})
        => /\ deal_matches' = deal_matches
           /\ proc'[p].response # "error"
           /\ proc'[p].pc = "page"
           /\ proc'[p].new_deals = proc[p].new_deals]_vars

\* A row of the signal that was marked sent less than 24 hours ago (the
\* model has one signal: every row belongs to it).
SentInWindow ==
    \E r \in RowIds :
        outbox[r].status = "sent" /\ outbox[r].updated_at <= WINDOW_SECONDS

\* C21: while a message of the signal was marked sent within the last 24
\* hours, no step inserts an outbox row, a step that creates a match
\* included.
C21_CooldownSuppressesEnqueue ==
    [][SentInWindow
       => \A r \in RowIds : ~Present(r) => outbox'[r] = NoRow]_vars

\* C22: every step that commits a new DealMatch row inserts a pending outbox
\* row with the match's id, and no notification is sent past the outbox (no
\* digest email is sent directly).
C22_NewMatchEnqueuesOutboxRow ==
    [][/\ \A m \in deal_matches' \ deal_matches :
            \E r \in RowIds :
                /\ ~Present(r)
                /\ outbox'[r].status = "pending"
                /\ outbox'[r].match_id = m.id
       /\ digests' = digests]_vars

\* The step ends a matching invocation of p: an API request (it returns or
\* raises), or the page of a scraper pass.
EndsInvocation(p) ==
    \/ proc[p].pc = "api_commit" /\ proc'[p].pc = "idle"
    \/ /\ proc[p].pc = "idle" /\ proc'[p].pc = "idle"
       /\ proc'[p] # proc[p]
    \/ proc[p].pc \in {"page", "scr_insert"} /\ proc'[p].pc = "idle"

\* C23: the step that ends a matching invocation leaves one more SignalRun,
\* which is success with matches_created_count equal to the DealMatch rows
\* the step committed, or failed; no run is left running.
C23_EveryInvocationLeavesOneRun ==
    [][\A p \in Procs :
        EndsInvocation(p)
        => /\ Len(signal_runs') = Len(signal_runs) + 1
           /\ LET run == signal_runs'[Len(signal_runs')]
              IN  \/ /\ run.status = "success"
                     /\ run.matches_created_count =
                            Cardinality(deal_matches' \ deal_matches)
                  \/ run.status = "failed"]_vars

\* C24: the rows a claim_batch call selects, and returns at its commit, are
\* rows of the caller's channel that are pending with next_attempt_at <=
\* now, or sending with updated_at more than 5 minutes old, and are at
\* most batch_size; so no pending row with a later next_attempt_at, no
\* sending row updated within 5 minutes, no sent and no dead row is among
\* them.
C24_ClaimReturnsOnlyEligibleRows ==
    [][\A w \in Workers :
        /\ (pc[w] = "poll" /\ pc'[w] = "claiming")
            => /\ Cardinality(locked'[w]) <= batch_size[w]
               /\ \A r \in locked'[w] :
                    /\ Present(r)
                    /\ outbox[r].channel = chan[w]
                    /\ \/ /\ outbox[r].status = "pending"
                          /\ outbox[r].next_attempt_at # NULL
                          /\ outbox[r].next_attempt_at <= 0
                       \/ /\ outbox[r].status = "sending"
                          /\ outbox[r].updated_at > 300
        /\ (pc[w] = "claiming" /\ pc'[w] = "deliver")
            => {batch'[w][i] : i \in 1..Len(batch'[w])} = locked[w]]_vars

\* A claim with batch_size 1 that took the first of two eligible rows, the
\* second being held by nobody.
C24_Witness ==
    \E w \in Workers :
        /\ pc[w] = "deliver"
        /\ batch_size[w] = 1
        /\ batch[w] = <<1>>
        /\ outbox[2].status = "sending"
        /\ outbox[2].updated_at > STALE_SECONDS
        /\ outbox[2].channel = chan[w]
        /\ \A v \in Workers : 2 \notin locked[v] /\ 2 \notin Holding(v)

C26_BackoffSchedule ==
    [][\A r \in RowIds :
        LET k == outbox[r].attempts
            delay == CASE k = 1 -> 30 [] k = 2 -> 120 [] k = 3 -> 600
                       [] k = 4 -> 1800 [] OTHER -> 7200
            marked == /\ Present(r)
                      /\ outbox'[r] # outbox[r]
                      /\ outbox'[r].status \in {"pending", "dead"}
                      /\ outbox'[r] # [outbox[r] EXCEPT !.next_attempt_at = 0]
        IN  /\ (marked /\ k < 8)
                => /\ k >= 1
                   /\ outbox'[r].status = "pending"
                   /\ outbox'[r].attempts = k
                   /\ outbox'[r].next_attempt_at = delay
            /\ (Present(r) /\ outbox'[r].next_attempt_at > 0
                /\ outbox'[r].next_attempt_at # outbox[r].next_attempt_at)
                => marked /\ k < 8
            /\ \A w \in Workers :
                ClaimCommits(w, r)
                => /\ outbox[r].next_attempt_at = 0
                   /\ outbox'[r].next_attempt_at = 0]_vars

\* A row waiting two hours after its seventh failed attempt.
C26_Witness ==
    \E r \in RowIds :
        /\ outbox[r].status = "pending"
        /\ outbox[r].attempts = 7
        /\ outbox[r].next_attempt_at = 7200

\* C27: the attempts of a row never exceeds MAX_ATTEMPTS (8).
C27_AttemptsAtMostMax ==
    \A r \in RowIds : Present(r) => outbox[r].attempts <= MAX_ATTEMPTS

\* C28: the step in which a worker finishes a row with a failure (the row
\* gets the error and becomes pending or dead) leaves the worker in its
\* loop with the remaining rows of its batch, in their order: it goes on
\* to deliver the next one, or polls again after the last.
C28_FailureKeepsWorkerGoing ==
    [][\A w \in Workers :
        (/\ pc[w] = "deliver"
         /\ batch'[w] # batch[w]
         /\ crashes' = crashes
         /\ outbox'[Head(batch[w])].status # "sent")
        => /\ outbox'[Head(batch[w])].status \in {"pending", "dead"}
           /\ outbox'[Head(batch[w])].last_error = "error"
           /\ batch'[w] = Tail(batch[w])
           /\ pc'[w] = IF Tail(batch[w]) = <<>> THEN "poll" ELSE "deliver"
           /\ \A r \in Holding(w) \ {Head(batch[w])} :
                outbox'[r] = outbox[r]]_vars

\* The first row of a batch of two has failed and waits for its retry; the
\* worker is delivering the second.
C28_Witness ==
    \E w \in Workers :
        /\ crashes = 0
        /\ outbox[1].status = "pending"
        /\ outbox[1].last_error = "error"
        /\ outbox[1].attempts = 1
        /\ outbox[2].status = "sending"
        /\ outbox[2].attempts = 1
        /\ outbox[2].updated_at = 0
        /\ pc[w] = "deliver"
        /\ batch[w] = <<2>>
        /\ \A v \in Workers \ {w} : pc[v] = "poll"

\* C29: on the row a worker is about to finish, mark_sent of the email
\* worker and mark_sent of the log worker give the same status, the same
\* attempts and the same nullness of next_attempt_at, and so do the two
\* mark_retry.
C29_WorkersAgree ==
    \A w \in Workers :
        pc[w] = "deliver"
        => LET row == outbox[Head(batch[w])]
               Same(a, b) ==
                    /\ a.status = b.status
                    /\ a.attempts = b.attempts
                    /\ (a.next_attempt_at = NULL) <=> (b.next_attempt_at = NULL)
           IN  /\ Same(mark_sent(row, loaded[w], "email"),
                       mark_sent(row, loaded[w], "log"))
               /\ Same(mark_retry(row, "email"), mark_retry(row, "log"))

\* C30: a row that a step inserts into the outbox is pending with attempts
\* 0 and a next_attempt_at that is not NULL and not after now, so the
\* claim query of its channel selects it.
C30_NewRowIsEligible ==
    [][\A r \in RowIds :
        (~Present(r) /\ outbox'[r] # NoRow)
        => /\ outbox'[r].status = "pending"
           /\ outbox'[r].attempts = 0
           /\ outbox'[r].next_attempt_at # NULL
           /\ outbox'[r].next_attempt_at <= 0
           /\ Eligible(outbox'[r], outbox'[r].channel)]_vars

\* The notification of a match, given up, next to the admin alert that was
\* enqueued for it.
C30_Witness ==
    \E r, q \in RowIds :
        /\ outbox[r].status = "dead"
        /\ outbox[r].match_id # NULL
        /\ outbox[r].to_email = "log"
        /\ outbox[q].status = "pending"
        /\ outbox[q].to_email = "admin"
        /\ outbox[q].attempts = 0
        /\ outbox[q].next_attempt_at = 0
        /\ outbox[q].match_id = outbox[r].match_id

\* C31: the list a claim_batch returns is in ascending created_at order (the
\* order of the ids), and the row a worker delivers and marks is the oldest
\* row of its batch that it has not yet marked: every older row of the
\* batch has been marked sent or retried before.
C31_BatchOldestFirst ==
    [][\A w \in Workers :
        /\ (pc[w] = "claiming" /\ pc'[w] = "deliver")
            => \A i, j \in 1..Len(batch'[w]) :
                    i < j => batch'[w][i] < batch'[w][j]
        /\ (pc[w] = "deliver" /\ batch'[w] # batch[w] /\ crashes' = crashes)
            => \E r \in Holding(w) :
                /\ {batch'[w][i] : i \in 1..Len(batch'[w])} = Holding(w) \ {r}
                /\ \A q \in Holding(w) : r <= q
                /\ outbox'[r].status \in {"sent", "pending", "dead"}
                /\ \A q \in RowIds \ {r} : outbox'[q] = outbox[q]]_vars

\* The older row of a batch of two has been delivered; the worker is on the
\* younger one.
C31_Witness ==
    \E w \in Workers :
        /\ outbox[1].status = "sent"
        /\ outbox[1].attempts = 1
        /\ outbox[2].status = "sending"
        /\ outbox[2].attempts = 1
        /\ pc[w] = "deliver"
        /\ batch[w] = <<2>>
        /\ \A v \in Workers \ {w} : pc[v] = "poll" /\ batch[v] = <<>>

\* C32: a row becomes sent only in the step of a worker that is delivering
\* it under the row's current claim: the row is sending, its claim was
\* counted, the worker has it at the head of its batch, and no other worker
\* holds it under another claim; and the step of a failed delivery never
\* leaves the row sent.
C32_SentOnlyUnderCurrentClaim ==
    [][\A r \in RowIds :
        /\ (Present(r) /\ outbox[r].status # "sent"
            /\ outbox'[r].status = "sent")
            => /\ outbox[r].status = "sending"
               /\ outbox[r].attempts >= 1
               /\ \E w \in Workers :
                    /\ pc[w] = "deliver"
                    /\ Head(batch[w]) = r
                    /\ \A v \in Workers \ {w} : r \notin Holding(v)
        /\ (Present(r) /\ outbox'[r].last_error = "error"
            /\ outbox'[r] # outbox[r])
            => outbox'[r].status # "sent"]_vars

\* C33: under the runner, with rows enqueued on both channels, a row that is
\* pending is eventually claimed by the worker loop of its channel (it does
\* not stay pending for ever).
C33_RunnerClaimsBothChannels ==
    \A r \in RowIds :
        (outbox[r].status = "pending") ~> (outbox[r].status # "pending")

\* C34: in every committed state, each DealMatch row that
\* create_signal_match created (the rows with a run_id) has exactly one
\* outbox row with its id as match_id, whether requests for other pairs, or
\* earlier requests for the same pair, failed after their insert or not.
C34_MatchCommittedWithItsMessage ==
    \A m \in deal_matches :
        m.run_id # NULL
        => Cardinality({r \in RowIds :
                            Present(r) /\ outbox[r].match_id = m.id}) = 1

\* A request for one pair failed after its insert and left nothing; the
\* match of the other pair is there with its message, which was delivered.
C34_Witness ==
    \E x, y \in Pairs : \E m \in MatchRows(y) : \E r \in RowIds :
        /\ calls[x] >= 1
        /\ MatchRows(x) = {}
        /\ m.run_id # NULL
        /\ outbox[r].status = "sent"
        /\ outbox[r].match_id = m.id

C36_RaisingSignalIsNoMatchOnly ==
    matching.pass = "done"
    => \A s \in 1..Len(matching.signals), d \in 1..Len(matching.deals) :
        /\ <<s, d>> \in matching.evaluated
        /\ <<s, d>> \in matching.returned
            <=> /\ ~Raises(matching.signals[s], matching.deals[d])
                /\ match_deal_to_signals(matching.signals[s],
                                         matching.deals[d])

\* The first signal raised on both deals; the second was returned for both.
C36_Witness ==
    /\ matching.pass = "done"
    /\ matching.raised = {<<1, 1>>, <<1, 2>>}
    /\ matching.returned = {<<2, 1>>, <<2, 2>>}

\* C37: for a signal with both months of its window and a deal that passes
\* every other test, the signal is returned exactly when the month of the
\* deal's depart date is not before the start month and not after the end
\* month: every day of the end month is accepted, the day after its last
\* day is not.
C37_WindowIsWholeMonths ==
    LET signal == matching.signal
        depart == matching.deal.depart_date
        MonthLE(a, b) == a[1] < b[1] \/ (a[1] = b[1] /\ a[2] <= b[2])
    IN  matching.result \in {"yes", "no"}
        => (matching.result = "yes"
            <=> /\ MonthLE(signal.start_month, <<depart[1], depart[2]>>)
                /\ MonthLE(<<depart[1], depart[2]>>, signal.end_month))

\* A departure on 29 February of a leap year, accepted by a window that
\* ends in that February.
C37_Witness ==
    /\ matching.result = "yes"
    /\ matching.signal.start_month = <<2025, 12>>
    /\ matching.signal.end_month = <<2028, 2>>
    /\ matching.deal.depart_date = <<2028, 2, 29>>

\* C38: the step of an upsert_deal call for a key and a price leaves a deal
\* with that key whose price_cents is the candidate's price, and the latest
\* point of the deal's price history has that price too.
C38_UpsertStoresCandidatePrice ==
    [][\A k \in DedupeKeys, price \in PriceCents :
        Upsert(k, price)
        => /\ \E d \in deals' : d.dedupe_key = k
           /\ \A d \in deals' :
                d.dedupe_key = k
                => /\ d.price_cents = price
                   /\ Len(price_history'[d.id]) >= 1
                   /\ price_history'[d.id][Len(price_history'[d.id])]
                        = price]_vars

\* A deal found at one price and upserted again at a lower one.
C38_Witness ==
    \E d \in deals :
        /\ upserts[d.dedupe_key] = 2
        /\ price_history[d.id] = <<10000, 9500>>
        /\ d.price_cents = 9500

\* C39: the step that ends a sweep keeps every deal with its id, dedupe key
\* and price (only is_active may differ), adds and deletes no deal, and
\* leaves the DealMatch rows and the price history points as they are.
C39_EndOfPassOnlyDeactivates ==
    [][(sweep.pc = "sweep" /\ sweep'.pc = "idle")
       => /\ \A d \in deals : \E e \in deals' :
                /\ e.id = d.id
                /\ e.dedupe_key = d.dedupe_key
                /\ e.price_cents = d.price_cents
          /\ Cardinality(deals') = Cardinality(deals)
          /\ deal_matches' = deal_matches
          /\ price_history' = price_history]_vars

\* A deal that a completed sweep set inactive, with its match and its
\* price history.
C39_Witness ==
    \E d \in deals :
        /\ latest_sweep.done
        /\ ~d.is_active
        /\ MatchRows(<<"s1", d.id>>) # {}
        /\ Len(price_history[d.id]) >= 2
====
